---- MODULE Spec2Model ----
(***************************************************************************)
(* Appointment scheduling in Needium66/GitGeneral.                         *)
(*                                                                         *)
(* Three services of the repository schedule appointments:                 *)
(*   - BookingService (needium-booking-health-service-gem.py): DynamoDB    *)
(*     table of appointments with start/end times, a conflict check that   *)
(*     queries the doctor's appointments and a conditional put_item;       *)
(*   - the in-memory appointment service                                   *)
(*     (needium-pat-appt-service-gcp-gem.py): appointments_db and          *)
(*     doctor_availability_db dictionaries;                                *)
(*   - the SQL API (Needium-Health-App-Rep-Python/server/main.py).         *)
(* A fourth service, TelemedicineService                                   *)
(* (needium-telemedicine-health-service-gem.py), keeps video sessions in a *)
(* DynamoDB table and their meetings in Amazon Chime.                      *)
(*                                                                         *)
(* Times are integers: one unit is a quarter of an hour and 0 stands for   *)
(* 2025-07-01T09:00.  Each service has its own specification; the          *)
(* variables of the other services keep their initial values in it.        *)
(***************************************************************************)
EXTENDS Integers, FiniteSets, Sequences, TLC

VARIABLES
    table,                    \* BookingService: the DynamoDB table, appointment_id -> item
    calls,                    \* BookingService: create_appointment calls in flight (replicas)
    sns,                      \* BookingService: the message the last call published to the SNS topic
    appointments_db,          \* in-memory service: appointment id -> Appointment
    doctor_availability_db,   \* in-memory service: doctor id -> DoctorAvailability
    sql_appointments,         \* SQL API: the appointments table, id -> row
    sessions,                 \* TelemedicineService: the sessions table, session_id -> item
    chime_meetings,           \* TelemedicineService: the meetings alive in Amazon Chime
    meetings_created,         \* TelemedicineService: how many meetings Chime has created
    now,                      \* the wall clock read by datetime.now() / utcnow()
    resp                      \* the response of the last handler that returned

vars == <<table, calls, sns, appointments_db, doctor_availability_db,
          sql_appointments, sessions, chime_meetings, meetings_created, now, resp>>

TelemedicineState == <<sessions, chime_meetings, meetings_created>>

OtherServices == <<appointments_db, doctor_availability_db, sql_appointments,
                    TelemedicineState>>
BookingState == <<table, calls, sns>>

(***************************************************************************)
(* Bounds.                                                                 *)
(***************************************************************************)
MaxTime == 2          \* appointment times range over 0..MaxTime
MaxNow == 1           \* the clock ranges over 0..MaxNow
NumCalls == 2         \* concurrent create_appointment calls (SpecConcurrent)
MaxRows == 3          \* rows the SQL appointments table may hold

Times == 0..MaxTime
Doctors == {"doc-123", "doc-456"}
Patients == {"p1"}
ApptIds == {"a1", "a2"}

\* timedelta(days=1) in quarter hours
Day == 96

(***************************************************************************)
(* BookingService: enums and items.                                        *)
(***************************************************************************)
PENDING == "pending"
CONFIRMED == "confirmed"
CANCELLED == "cancelled"
COMPLETED == "completed"
NO_SHOW == "no_show"

AppointmentStatus == {PENDING, CONFIRMED, CANCELLED, COMPLETED, NO_SHOW}

\* An attribute a DynamoDB item does not have.
Absent == "absent"
AbsentTime == -1

\* No item under a key.
NoItem ==
    [appointment_id |-> Absent, patient_id |-> Absent, doctor_id |-> Absent,
     start_time |-> AbsentTime, end_time |-> AbsentTime, status |-> Absent,
     created_at |-> AbsentTime, updated_at |-> AbsentTime]

\* The request body of POST /appointments.  Nothing validates start_time < end_time.
AppointmentCreate ==
    [patient_id : Patients, doctor_id : Doctors, start_time : Times, end_time : Times]

\* The item create_appointment builds: status is always PENDING.
NewItem(appointment_id, appointment_data, current_time) ==
    [appointment_id |-> appointment_id,
     patient_id |-> appointment_data.patient_id,
     doctor_id |-> appointment_data.doctor_id,
     start_time |-> appointment_data.start_time,
     end_time |-> appointment_data.end_time,
     status |-> PENDING,
     created_at |-> current_time,
     updated_at |-> current_time]

\* An item that has every attribute _dynamodb_item_to_appointment_response reads.
IsAppointment(item) ==
    /\ item.appointment_id # Absent
    /\ item.patient_id # Absent
    /\ item.doctor_id # Absent
    /\ item.start_time # AbsentTime
    /\ item.end_time # AbsentTime
    /\ item.created_at # AbsentTime

\* uuid.uuid4(): an identifier that is not in use.
uuid4(tbl, inflight) ==
    CHOOSE id \in ApptIds : tbl[id] = NoItem /\ id \notin inflight

HasFreeId(tbl, inflight) ==
    \E id \in ApptIds : tbl[id] = NoItem /\ id \notin inflight

\* The key condition without its doctor_id = :doctor_id part (a scan by start_time).
KeyCondition_any_doctor(item, doctor_id, start_date, end_date) ==
    /\ item.start_time >= start_date
    /\ item.start_time <= end_date

\* The key condition of the doctor_id-start_time-index query.
KeyCondition(item, doctor_id, start_date, end_date) ==
    /\ item.doctor_id = doctor_id
    /\ item.start_time >= start_date
    /\ item.start_time <= end_date

\* get_appointments_by_doctor(doctor_id, start_date, end_date): the items of the
\* doctor whose start_time is BETWEEN start_date AND end_date.
get_appointments_by_doctor(tbl, doctor_id, start_date, end_date) ==
    {id \in ApptIds :
        /\ IsAppointment(tbl[id])
        /\ KeyCondition(tbl[id], doctor_id, start_date, end_date)}

\* The statuses the conflict loop skips.
IgnoredByConflictCheck == {CANCELLED, NO_SHOW}

\* The overlap test with the boundaries included (closed intervals).
TimeOverlap_closed(appointment_data, existing_app) ==
    /\ appointment_data.start_time <= existing_app.end_time
    /\ appointment_data.end_time >= existing_app.start_time

\* The overlap test of the conflict loop.
TimeOverlap(appointment_data, existing_app) ==
    /\ appointment_data.start_time < existing_app.end_time
    /\ appointment_data.end_time > existing_app.start_time

\* The conflict loop of create_appointment over the query's result.
TimeConflict(tbl, appointment_data) ==
    \E id \in get_appointments_by_doctor(tbl, appointment_data.doctor_id,
                                         appointment_data.start_time,
                                         appointment_data.end_time + Day) :
        /\ tbl[id].status \notin IgnoredByConflictCheck
        /\ TimeOverlap(appointment_data, tbl[id])

\* _send_appointment_notification: the payload published to the topic.
Notification(appointment_id, status) ==
    [appointment_id |-> appointment_id, status |-> status]

\* Nothing published.
NoMessage == Notification(Absent, Absent)

\* A create_appointment call of one replica of the service: where it is (idle, save:
\* between its conflict check and its put_item, done), its locals and its response.
Calls == 1..NumCalls

IdleCall ==
    [pc |-> "idle", appointment_data |-> NoItem, appointment_id |-> Absent,
     current_time |-> AbsentTime, code |-> 0]

\* The identifiers generated by the calls that have not saved yet.
InFlightIds(cs) == {cs[c].appointment_id : c \in {x \in Calls : cs[x].pc = "save"}}

\* put_item without a ConditionExpression: it never fails on an existing key.
ConditionalCheckFailed_never(tbl, appointment_id) == FALSE

\* ConditionExpression="attribute_not_exists(appointment_id)" fails
ConditionalCheckFailed(tbl, appointment_id) == tbl[appointment_id] # NoItem

\* The detail of the 409 the conflict loop of BookingService.create_appointment raises.
TIME_CONFLICT_DETAIL ==
    "Doctor is not available at the requested time. Please choose another slot."

\* The detail an identifier conflict would carry if it reused the time-conflict text.
ID_CONFLICT_DETAIL_same == TIME_CONFLICT_DETAIL

\* The detail of the 409 raised on ConditionalCheckFailedException.
ID_CONFLICT_DETAIL == "Appointment ID conflict."

\* The detail of the 500 raised on any other exception of create_appointment.
CREATE_FAILED_DETAIL == "Failed to create appointment"

\* The detail of the 400 of the in-memory create_appointment.
AVAILABILITY_NOT_FOUND_DETAIL(doctor_id) ==
    "Doctor " \o doctor_id \o " availability not found."

\* The detail of the 409 of the in-memory create_appointment.
SLOT_TAKEN_DETAIL == "Appointment slot already taken for this doctor."

\* HTTP responses.
NoResp == [op |-> "none", code |-> 0, detail |-> "none"]
Response(op, code, detail) == [op |-> op, code |-> code, detail |-> detail]

(***************************************************************************)
(* The in-memory appointment service: models and database.                 *)
(***************************************************************************)
MemDoctors == Doctors \cup {"doc-789"}
MemIds == {"m1", "m2"}
MemTimes == 0..(MaxTime - 1)
Dates == {"2025-07-01", "2025-07-02"}

SCHEDULED == "scheduled"

TimeSlot(start_time, end_time) == [start_time |-> start_time, end_time |-> end_time]

DoctorAvailability(doctor_id, date, available_slots) ==
    [doctor_id |-> doctor_id, date |-> date, available_slots |-> available_slots]

\* doctor_id not in doctor_availability_db
NoAvailability == DoctorAvailability(Absent, Absent, <<>>)

\* appointment_id not in appointments_db
NoAppointment ==
    [id |-> Absent, patient_id |-> Absent, doctor_id |-> Absent,
     appointment_time |-> AbsentTime, status |-> Absent,
     created_at |-> AbsentTime, updated_at |-> AbsentTime]

\* The request body of POST /appointments (AppointmentBase).
MemAppointmentCreate ==
    [patient_id : Patients, doctor_id : MemDoctors, appointment_time : MemTimes]

\* The request body of PUT /appointments/{id}: status may be unset.
AppointmentUpdate == [status : {Absent, SCHEDULED, COMPLETED, CANCELLED}]

\* The request bodies of POST /doctors/{doctor_id}/availability that the doctors of
\* Doctors post: either doctor_id, two dates, and slot lists that are empty, single
\* and overlapping.  doc-789 never publishes availability.
AvailabilityBodies ==
    {DoctorAvailability(d, "2025-07-01", <<TimeSlot(0, 2)>>) : d \in Doctors}
    \cup {DoctorAvailability("doc-123", "2025-07-02", <<>>),
          DoctorAvailability("doc-123", "2025-07-02", <<TimeSlot(0, 2), TimeSlot(1, 3)>>)}

\* Appointment(id=..., created_at=..., updated_at=..., status="scheduled", **data)
NewAppointment(appointment_id, appointment_data, current_time) ==
    [id |-> appointment_id,
     patient_id |-> appointment_data.patient_id,
     doctor_id |-> appointment_data.doctor_id,
     appointment_time |-> appointment_data.appointment_time,
     status |-> SCHEDULED,
     created_at |-> current_time,
     updated_at |-> current_time]

\* str(uuid.uuid4()) of the in-memory service: an identifier that is not in use.
mem_uuid4(db) == CHOOSE id \in MemIds : db[id] = NoAppointment

\* The loop with cancelled appointments skipped.
SlotTaken_active(db, doctor_id, requested_time) ==
    \E id \in MemIds :
        /\ db[id] # NoAppointment
        /\ db[id].status # CANCELLED
        /\ db[id].doctor_id = doctor_id
        /\ db[id].appointment_time = requested_time

\* The loop of create_appointment over appointments_db.values(): an appointment of
\* the doctor at exactly the requested time, whatever its status.
SlotTaken(db, doctor_id, requested_time) ==
    \E id \in MemIds :
        /\ db[id] # NoAppointment
        /\ db[id].doctor_id = doctor_id
        /\ db[id].appointment_time = requested_time

(***************************************************************************)
(* The SQL API: the appointments table.                                    *)
(***************************************************************************)
\* The status column: 'scheduled' | 'confirmed' | 'completed' | 'cancelled'
SqlStatuses == {SCHEDULED, CONFIRMED, COMPLETED, CANCELLED}

\* AppointmentCreate of server/models.py: status is a field of the request body.
SqlAppointmentCreate == [doctor_id : {1}, status : SqlStatuses]

\* The body of PUT /api/appointments/{id}: a dict of columns to set.
SqlAppointmentUpdate == [status : SqlStatuses]

(***************************************************************************)
(* Initial state.                                                          *)
(***************************************************************************)
InitBooking ==
    /\ table = [id \in ApptIds |-> NoItem]
    /\ calls = [c \in Calls |-> IdleCall]
    /\ sns = NoMessage

\* appointment_service/database.py: no appointments, and the availability of
\* doc-123 (four morning slots) and doc-456 (three afternoon slots).
InitMemory ==
    /\ appointments_db = [id \in MemIds |-> NoAppointment]
    /\ doctor_availability_db =
          [d \in MemDoctors |->
              IF d = "doc-123"
              THEN DoctorAvailability("doc-123", "2025-07-01",
                       <<TimeSlot(0, 2), TimeSlot(2, 4), TimeSlot(4, 6), TimeSlot(6, 8)>>)
              ELSE IF d = "doc-456"
              THEN DoctorAvailability("doc-456", "2025-07-01",
                       <<TimeSlot(16, 18), TimeSlot(18, 20), TimeSlot(20, 22)>>)
              ELSE NoAvailability]

\* The appointments table after create_tables(), before any appointment is posted.
InitSql ==
    /\ sql_appointments = <<>>

(***************************************************************************)
(* TelemedicineService: the sessions table and Amazon Chime.               *)
(***************************************************************************)
MaxMeetings == 3

SessionIds == {"s1", "s2"}
MeetingIds == 1..MaxMeetings

\* class SessionStatus
SESSION_SCHEDULED == "scheduled"
IN_PROGRESS == "in_progress"
ENDED == "ended"
SESSION_CANCELLED == "cancelled"

\* class UserType
PATIENT == "patient"
DOCTOR == "doctor"
UserTypes == {PATIENT, DOCTOR}

\* session.meeting_id of an item without the meeting_id attribute (None)
NoMeeting == 0

\* get_item finds no item under the key
NoSession == [status |-> "absent", meeting_id |-> NoMeeting, is_recording_active |-> FALSE,
              patient_id |-> "none", doctor_id |-> "none"]

\* The bodies of POST /telemedicine/sessions.
TelemedicineSessionCreate ==
    [patient_id : Patients, doctor_id : Doctors]

\* The bodies of POST /telemedicine/sessions/{session_id}/join.
JoinSessionRequest ==
    [user_id : Patients \cup Doctors, user_type : UserTypes]

SESSION_NOT_FOUND_DETAIL == "Telemedicine session not found."
UNAUTHORIZED_PATIENT_DETAIL == "Unauthorized to join this session as patient."
UNAUTHORIZED_DOCTOR_DETAIL == "Unauthorized to join this session as doctor."
CREATE_MEETING_FAILED_DETAIL == "Failed to create Chime meeting."
MEETING_NOT_FOUND_DETAIL == "Associated Chime meeting not found or has ended."
GET_MEETING_FAILED_DETAIL == "Failed to retrieve Chime meeting details."
CREATE_ATTENDEE_FAILED_DETAIL == "Failed to create Chime attendee."
NOT_IN_PROGRESS_DETAIL == "Session is not in progress or no active meeting to record."
START_RECORDING_FAILED_DETAIL == "Failed to start recording"
STOP_RECORDING_FAILED_DETAIL == "Failed to stop recording"

\* The sessions table before any session is scheduled; Chime holds no meeting.
InitTelemedicine ==
    /\ sessions = [session_id \in SessionIds |-> NoSession]
    /\ chime_meetings = {}
    /\ meetings_created = 0

Init ==
    /\ InitBooking
    /\ InitMemory
    /\ InitSql
    /\ InitTelemedicine
    /\ now = 0
    /\ resp = NoResp

\* Time passes.
Tick ==
    /\ now < MaxNow
    /\ now' = now + 1
    /\ UNCHANGED <<table, calls, sns, appointments_db,
                   doctor_availability_db, sql_appointments, TelemedicineState, resp>>

(***************************************************************************)
(* BookingService, one call at a time.                                     *)
(***************************************************************************)

\* BookingService.create_appointment, run from its first line to its return.
BookingService_create_appointment(appointment_data) ==
    /\ HasFreeId(table, {})
    /\ LET appointment_id == uuid4(table, {})
           current_time == now
       IN IF TimeConflict(table, appointment_data)
          THEN /\ resp' = Response("create", 409, TIME_CONFLICT_DETAIL)
               /\ sns' = NoMessage
               /\ UNCHANGED table
          ELSE IF ConditionalCheckFailed(table, appointment_id)
          THEN /\ resp' = Response("create", 409, ID_CONFLICT_DETAIL)
               /\ sns' = NoMessage
               /\ UNCHANGED table
          ELSE /\ table' = [table EXCEPT ![appointment_id] =
                                NewItem(appointment_id, appointment_data, current_time)]
               /\ sns' = Notification(appointment_id, PENDING)
               /\ resp' = Response("create", 201, appointment_id)
    /\ UNCHANGED <<calls, now, OtherServices>>

\* update_appointment_status writing created_at as well as updated_at.
BookingService_update_appointment_status_created(appointment_id, new_status) ==
    /\ LET current_time == now
           updated_item == [table[appointment_id] EXCEPT
                               !.appointment_id = appointment_id,
                               !.status = new_status,
                               !.created_at = current_time,
                               !.updated_at = current_time]
       IN /\ table' = [table EXCEPT ![appointment_id] = updated_item]
          /\ IF IsAppointment(updated_item)
             THEN /\ sns' = Notification(appointment_id, new_status)
                  /\ resp' = Response("update", 200, appointment_id)
             ELSE /\ sns' = NoMessage
                  /\ resp' = Response("update", 500, "invalid item")
    /\ UNCHANGED <<calls, now, OtherServices>>

\* BookingService.update_appointment_status: update_item writes status and updated_at
\* under the key, creating the item when there is none; the response is built from the
\* attributes returned, which fails (500) for an item that is not a whole appointment.
BookingService_update_appointment_status(appointment_id, new_status) ==
    /\ LET current_time == now
           updated_item == [table[appointment_id] EXCEPT
                               !.appointment_id = appointment_id,
                               !.status = new_status,
                               !.updated_at = current_time]
       IN /\ table' = [table EXCEPT ![appointment_id] = updated_item]
          /\ IF IsAppointment(updated_item)
             THEN /\ sns' = Notification(appointment_id, new_status)
                  /\ resp' = Response("update", 200, appointment_id)
             ELSE /\ sns' = NoMessage
                  /\ resp' = Response("update", 500, "invalid item")
    /\ UNCHANGED <<calls, now, OtherServices>>

NextBooking ==
    \/ \E appointment_data \in AppointmentCreate :
           BookingService_create_appointment(appointment_data)
    \/ \E appointment_id \in ApptIds, new_status \in AppointmentStatus :
           BookingService_update_appointment_status(appointment_id, new_status)
    \/ Tick

SpecBooking == Init /\ [][NextBooking]_vars

(***************************************************************************)
(* BookingService with what its environment decides made explicit: the     *)
(* identifier uuid4 draws, which may be one already in the table, and      *)
(* whether sns.publish succeeds or raises.                                 *)
(***************************************************************************)
\* _send_appointment_notification lets every exception of publish out to its caller.
send_appointment_notification_reraises(publish_ok) == ~publish_ok

\* _send_appointment_notification raises to its caller: never, its except Exception
\* logs the error and returns.
send_appointment_notification_raises(publish_ok) == FALSE

\* _send_appointment_notification: the message that reaches the topic.
send_appointment_notification(publish_ok, appointment_id, status) ==
    IF publish_ok THEN Notification(appointment_id, status) ELSE NoMessage

\* What BookingService.create_appointment answers on a table, for the identifier
\* uuid4 draws and the outcome of publish: the 409 of the conflict loop, the 409 of
\* ConditionalCheckFailedException, the 500 of any other exception, or 201.
create_appointment_response(tbl, appointment_id, publish_ok, appointment_data) ==
    IF TimeConflict(tbl, appointment_data)
    THEN Response("create", 409, TIME_CONFLICT_DETAIL)
    ELSE IF ConditionalCheckFailed(tbl, appointment_id)
    THEN Response("create", 409, ID_CONFLICT_DETAIL)
    ELSE IF send_appointment_notification_raises(publish_ok)
    THEN Response("create", 500, CREATE_FAILED_DETAIL)
    ELSE Response("create", 201, appointment_id)

\* create_appointment with the notification sent before put_item: the message is
\* published once the conflict loop has passed, whatever put_item then answers.
BookingService_create_appointment_env_publish_first(appointment_id, publish_ok, appointment_data) ==
    /\ IF TimeConflict(table, appointment_data)
       THEN /\ sns' = NoMessage
            /\ UNCHANGED table
       ELSE /\ sns' = send_appointment_notification(publish_ok, appointment_id, PENDING)
            /\ IF ConditionalCheckFailed(table, appointment_id)
               THEN UNCHANGED table
               ELSE table' = [table EXCEPT ![appointment_id] =
                                  NewItem(appointment_id, appointment_data, now)]
    /\ resp' = create_appointment_response(table, appointment_id, publish_ok,
                                           appointment_data)
    /\ UNCHANGED <<calls, now, OtherServices>>

\* create_appointment with put_item moved before the conflict loop: the item is
\* written first, and the call still answers 409 on a time conflict.
BookingService_create_appointment_env_put_first(appointment_id, publish_ok, appointment_data) ==
    /\ IF ConditionalCheckFailed(table, appointment_id)
       THEN /\ sns' = NoMessage
            /\ UNCHANGED table
       ELSE /\ table' = [table EXCEPT ![appointment_id] =
                             NewItem(appointment_id, appointment_data, now)]
            /\ sns' = IF TimeConflict(table, appointment_data)
                      THEN NoMessage
                      ELSE send_appointment_notification(publish_ok, appointment_id,
                                                         PENDING)
    /\ resp' = create_appointment_response(table, appointment_id, publish_ok,
                                           appointment_data)
    /\ UNCHANGED <<calls, now, OtherServices>>

\* BookingService.create_appointment, with the identifier drawn by uuid4 and the
\* outcome of publish as inputs.
BookingService_create_appointment_env(appointment_id, publish_ok, appointment_data) ==
    /\ LET current_time == now
       IN IF TimeConflict(table, appointment_data)
          THEN /\ sns' = NoMessage
               /\ UNCHANGED table
          ELSE IF ConditionalCheckFailed(table, appointment_id)
          THEN /\ sns' = NoMessage
               /\ UNCHANGED table
          ELSE /\ table' = [table EXCEPT ![appointment_id] =
                                NewItem(appointment_id, appointment_data, current_time)]
               /\ sns' = send_appointment_notification(publish_ok, appointment_id,
                                                       PENDING)
    /\ resp' = create_appointment_response(table, appointment_id, publish_ok,
                                           appointment_data)
    /\ UNCHANGED <<calls, now, OtherServices>>

\* The item update_item leaves under the key: the item there, or a new one, with the
\* key, status and updated_at set.
update_item(tbl, appointment_id, new_status, current_time) ==
    [tbl[appointment_id] EXCEPT !.appointment_id = appointment_id,
                                !.status = new_status,
                                !.updated_at = current_time]

\* What BookingService.update_appointment_status answers, given the attributes
\* update_item returned and the outcome of publish.
update_appointment_status_response(updated_item, appointment_id, publish_ok) ==
    IF ~IsAppointment(updated_item)
    THEN Response("update", 500, "invalid item")
    ELSE IF send_appointment_notification_raises(publish_ok)
    THEN Response("update", 500, "Failed to update appointment status")
    ELSE Response("update", 200, appointment_id)

\* BookingService.update_appointment_status, with the outcome of publish as an input.
BookingService_update_appointment_status_env(appointment_id, new_status, publish_ok) ==
    /\ LET current_time == now
           updated_item == update_item(table, appointment_id, new_status, current_time)
       IN /\ table' = [table EXCEPT ![appointment_id] = updated_item]
          /\ IF IsAppointment(updated_item)
             THEN sns' = send_appointment_notification(publish_ok, appointment_id,
                                                       new_status)
             ELSE sns' = NoMessage
          /\ resp' = update_appointment_status_response(updated_item, appointment_id,
                                                        publish_ok)
    /\ UNCHANGED <<calls, now, OtherServices>>

\* The requests of this specification: those with start_time before end_time.
EnvAppointmentCreate ==
    {appointment_data \in AppointmentCreate :
        appointment_data.start_time < appointment_data.end_time}

\* All calls are made at one reading of the clock.
NextEnv ==
    \/ \E appointment_id \in ApptIds, publish_ok \in BOOLEAN,
          appointment_data \in EnvAppointmentCreate :
           BookingService_create_appointment_env(appointment_id, publish_ok,
                                                 appointment_data)
    \/ \E appointment_id \in ApptIds, new_status \in AppointmentStatus,
          publish_ok \in BOOLEAN :
           BookingService_update_appointment_status_env(appointment_id, new_status,
                                                        publish_ok)

SpecEnv == Init /\ [][NextEnv]_vars

(***************************************************************************)
(* BookingService, concurrent create_appointment calls: replicas of the    *)
(* service share the table, and nothing holds between the query of a call  *)
(* and its put_item.                                                       *)
(***************************************************************************)
\* create_appointment up to the end of its conflict loop (lines 134-155).
create_appointment_check(c, appointment_data) ==
    /\ calls[c].pc = "idle"
    /\ HasFreeId(table, InFlightIds(calls))
    /\ LET appointment_id == uuid4(table, InFlightIds(calls))
           current_time == now
       IN IF TimeConflict(table, appointment_data)
          THEN calls' = [calls EXCEPT ![c] =
                           [pc |-> "done", appointment_data |-> appointment_data,
                            appointment_id |-> appointment_id,
                            current_time |-> current_time, code |-> 409]]
          ELSE calls' = [calls EXCEPT ![c] =
                           [pc |-> "save", appointment_data |-> appointment_data,
                            appointment_id |-> appointment_id,
                            current_time |-> current_time, code |-> 0]]
    /\ UNCHANGED <<table, sns, now, resp, OtherServices>>

\* create_appointment from its put_item to its return (lines 157-194).
create_appointment_save(c) ==
    /\ calls[c].pc = "save"
    /\ LET appointment_id == calls[c].appointment_id
       IN IF ConditionalCheckFailed(table, appointment_id)
          THEN /\ calls' = [calls EXCEPT ![c].pc = "done", ![c].code = 409]
               /\ UNCHANGED <<table, sns>>
          ELSE /\ table' = [table EXCEPT ![appointment_id] =
                                NewItem(appointment_id, calls[c].appointment_data,
                                        calls[c].current_time)]
               /\ sns' = Notification(appointment_id, PENDING)
               /\ calls' = [calls EXCEPT ![c].pc = "done", ![c].code = 201]
    /\ UNCHANGED <<now, resp, OtherServices>>

NextConcurrent ==
    \/ \E c \in Calls, appointment_data \in AppointmentCreate :
           create_appointment_check(c, appointment_data)
    \/ \E c \in Calls : create_appointment_save(c)
    \/ Tick

SpecConcurrent == Init /\ [][NextConcurrent]_vars

(***************************************************************************)
(* The in-memory appointment service.                                      *)
(***************************************************************************)
HasFreeMemId(db) == \E id \in MemIds : db[id] = NoAppointment

\* POST /appointments
create_appointment(appointment_data) ==
    /\ HasFreeMemId(appointments_db)
    /\ LET doctor_id == appointment_data.doctor_id
           requested_time == appointment_data.appointment_time
       IN IF doctor_availability_db[doctor_id] = NoAvailability
          THEN /\ resp' = Response("create", 400,
                                 AVAILABILITY_NOT_FOUND_DETAIL(doctor_id))
               /\ UNCHANGED appointments_db
          ELSE IF SlotTaken(appointments_db, doctor_id, requested_time)
          THEN /\ resp' = Response("create", 409, SLOT_TAKEN_DETAIL)
               /\ UNCHANGED appointments_db
          ELSE LET appointment_id == mem_uuid4(appointments_db)
                   current_time == now
               IN /\ appointments_db' =
                        [appointments_db EXCEPT ![appointment_id] =
                            NewAppointment(appointment_id, appointment_data, current_time)]
                  /\ resp' = Response("create", 201, appointment_id)
    /\ UNCHANGED <<doctor_availability_db, now, BookingState, sql_appointments,
                   TelemedicineState>>

\* PUT /appointments/{appointment_id}: AppointmentUpdate has no patient_id, so reading
\* appointment_update.patient_id raises AttributeError before anything is written.
update_appointment(appointment_id, appointment_update) ==
    /\ IF appointments_db[appointment_id] = NoAppointment
       THEN resp' = Response("update", 404, "not found")
       ELSE resp' = Response("update", 500, "AttributeError")
    /\ UNCHANGED <<appointments_db, doctor_availability_db, now, BookingState,
                   sql_appointments, TelemedicineState>>

\* cancel_appointment with the deletion its last comment keeps disabled:
\* del appointments_db[appointment_id]
cancel_appointment_del(appointment_id) ==
    /\ IF appointments_db[appointment_id] = NoAppointment
       THEN /\ resp' = Response("cancel", 404, "not found")
            /\ UNCHANGED appointments_db
       ELSE /\ appointments_db' =
                  [appointments_db EXCEPT ![appointment_id] = NoAppointment]
            /\ resp' = Response("cancel", 204, appointment_id)
    /\ UNCHANGED <<doctor_availability_db, now, BookingState, sql_appointments,
                   TelemedicineState>>

\* DELETE /appointments/{appointment_id}
cancel_appointment(appointment_id) ==
    /\ IF appointments_db[appointment_id] = NoAppointment
       THEN /\ resp' = Response("cancel", 404, "not found")
            /\ UNCHANGED appointments_db
       ELSE /\ appointments_db' =
                  [appointments_db EXCEPT ![appointment_id].status = CANCELLED,
                                          ![appointment_id].updated_at = now]
            /\ resp' = Response("cancel", 204, appointment_id)
    /\ UNCHANGED <<doctor_availability_db, now, BookingState, sql_appointments,
                   TelemedicineState>>

\* POST /doctors/{doctor_id}/availability: the body replaces the doctor's entry.
set_doctor_availability(doctor_id, availability) ==
    /\ doctor_availability_db' = [doctor_availability_db EXCEPT ![doctor_id] = availability]
    /\ resp' = Response("availability", 201, doctor_id)
    /\ UNCHANGED <<appointments_db, now, BookingState, sql_appointments,
                   TelemedicineState>>

NextMemory ==
    \/ \E appointment_data \in MemAppointmentCreate : create_appointment(appointment_data)
    \/ \E appointment_id \in MemIds, appointment_update \in AppointmentUpdate :
           update_appointment(appointment_id, appointment_update)
    \/ \E appointment_id \in MemIds : cancel_appointment(appointment_id)
    \/ \E doctor_id \in Doctors, availability \in AvailabilityBodies :
           set_doctor_availability(doctor_id, availability)
    \/ Tick

SpecMemory == Init /\ [][NextMemory]_vars

(***************************************************************************)
(* The SQL API.                                                            *)
(***************************************************************************)
\* POST /api/appointments: Appointment(**appointment.dict()), the id is the next row id.
api_create_appointment(appointment) ==
    /\ Len(sql_appointments) < MaxRows
    /\ sql_appointments' = Append(sql_appointments, appointment)
    /\ resp' = Response("create", 200, Len(sql_appointments) + 1)
    /\ UNCHANGED <<appointments_db, doctor_availability_db, now, BookingState,
                   TelemedicineState>>

\* PUT /api/appointments/{appointment_id}: setattr for every key of the body.
api_update_appointment(appointment_id, appointment_update) ==
    /\ IF appointment_id \in DOMAIN sql_appointments
       THEN /\ sql_appointments' =
                  [sql_appointments EXCEPT ![appointment_id].status =
                                               appointment_update.status]
            /\ resp' = Response("update", 200, appointment_id)
       ELSE /\ resp' = Response("update", 404, "not found")
            /\ UNCHANGED sql_appointments
    /\ UNCHANGED <<appointments_db, doctor_availability_db, now, BookingState,
                   TelemedicineState>>

NextSql ==
    \/ \E appointment \in SqlAppointmentCreate : api_create_appointment(appointment)
    \/ \E appointment_id \in 1..MaxRows, appointment_update \in SqlAppointmentUpdate :
           api_update_appointment(appointment_id, appointment_update)

SpecSql == Init /\ [][NextSql]_vars

(***************************************************************************)
(* Properties.                                                             *)
(***************************************************************************)
\* Half-open overlap of two intervals: A.start < B.end and B.start < A.end.
Overlaps(a_start, a_end, b_start, b_end) == a_start < b_end /\ b_start < a_end

\* The active states of an appointment.
Active == {PENDING, CONFIRMED}

\* The terminal states of an appointment.
Terminal == {CANCELLED, COMPLETED, NO_SHOW}

\* The transitions of the appointment state machine.
LegalTransition(from, to) ==
    \/ from = PENDING /\ to = CONFIRMED
    \/ from \in {PENDING, CONFIRMED} /\ to = CANCELLED
    \/ from = CONFIRMED /\ to \in {COMPLETED, NO_SHOW}

\* C1: when every one of the NumCalls concurrent create_appointment calls has
\* returned, and all of them asked for the same doctor and the same interval
\* (start < end), exactly one of them was answered 201 and every other one 409.
C1_ExactlyOneAdmitted ==
    (/\ \A c \in Calls : calls[c].pc = "done"
     /\ \A c, d \in Calls :
           /\ calls[c].appointment_data.doctor_id = calls[d].appointment_data.doctor_id
           /\ calls[c].appointment_data.start_time = calls[d].appointment_data.start_time
           /\ calls[c].appointment_data.end_time = calls[d].appointment_data.end_time
     /\ \A c \in Calls :
           calls[c].appointment_data.start_time < calls[c].appointment_data.end_time)
    => /\ Cardinality({c \in Calls : calls[c].code = 201}) = 1
       /\ \A c \in Calls : calls[c].code \in {201, 409}

\* C2: no two stored appointments of the same doctor that are both active
\* (pending or confirmed), each with start < end, have overlapping intervals.
C2_NoActiveOverlap ==
    \A a, b \in ApptIds :
        (/\ a # b
         /\ IsAppointment(table[a]) /\ IsAppointment(table[b])
         /\ table[a].doctor_id = table[b].doctor_id
         /\ table[a].status \in Active /\ table[b].status \in Active
         /\ table[a].start_time < table[a].end_time
         /\ table[b].start_time < table[b].end_time)
        => ~Overlaps(table[a].start_time, table[a].end_time,
                     table[b].start_time, table[b].end_time)

\* The appointments of a doctor that are not cancelled and whose appointment_time
\* lies inside a slot, start_time <= appointment_time < end_time.
BookedInSlot(doctor_id, slot) ==
    {id \in MemIds :
        /\ appointments_db[id] # NoAppointment
        /\ appointments_db[id].doctor_id = doctor_id
        /\ appointments_db[id].status # CANCELLED
        /\ slot.start_time <= appointments_db[id].appointment_time
        /\ appointments_db[id].appointment_time < slot.end_time}

\* C3: for every doctor and every slot of the doctor's published availability,
\* at most one appointment that is not cancelled lies inside the slot.
C3_OnePerSlot ==
    \A d \in MemDoctors :
        \A i \in DOMAIN doctor_availability_db[d].available_slots :
            Cardinality(BookedInSlot(d, doctor_availability_db[d].available_slots[i])) <= 1

\* A slot of the doctor's published availability contains the time.
Covered(doctor_id, time) ==
    \E i \in DOMAIN doctor_availability_db[doctor_id].available_slots :
        LET slot == doctor_availability_db[doctor_id].available_slots[i]
        IN slot.start_time <= time /\ time < slot.end_time

\* C4: a create_appointment call for a time that no published slot of the doctor
\* covers is answered "availability not found" and stores no appointment.
C4_UncoveredRejected ==
    [][\A appointment_data \in MemAppointmentCreate :
          (/\ create_appointment(appointment_data)
           /\ ~Covered(appointment_data.doctor_id, appointment_data.appointment_time))
          => /\ appointments_db' = appointments_db
             /\ resp'.code = 400]_vars

\* The request touches the boundary of an active appointment of its doctor (it starts
\* where that one ends, or ends where that one starts) and overlaps no stored
\* appointment of the doctor.
AdjacentOnly(appointment_data) ==
    /\ \E id \in ApptIds :
          /\ IsAppointment(table[id])
          /\ table[id].doctor_id = appointment_data.doctor_id
          /\ table[id].status \in Active
          /\ \/ appointment_data.start_time = table[id].end_time
             \/ appointment_data.end_time = table[id].start_time
    /\ \A id \in ApptIds :
          (IsAppointment(table[id]) /\ table[id].doctor_id = appointment_data.doctor_id)
          => ~Overlaps(appointment_data.start_time, appointment_data.end_time,
                       table[id].start_time, table[id].end_time)

\* C5: a create_appointment call whose interval only touches the boundary of an active
\* appointment of the doctor, and overlaps none, is answered 201 and its appointment
\* is stored.
C5_AdjacentAdmitted ==
    [][resp'.op = "create" =>
          \A appointment_data \in AppointmentCreate :
             (/\ AdjacentOnly(appointment_data)
              /\ BookingService_create_appointment(appointment_data))
             => /\ resp'.code = 201
                /\ table'[resp'.detail] = NewItem(resp'.detail, appointment_data, now)]_vars

\* C5 witness: the last call created an appointment that starts where an active
\* appointment of the same doctor, stored before it, ends.
C5_Witness ==
    /\ resp.op = "create" /\ resp.code = 201
    /\ resp.detail \in ApptIds
    /\ \E id \in ApptIds \ {resp.detail} :
          /\ IsAppointment(table[id])
          /\ table[id].status \in Active
          /\ table[id].doctor_id = table[resp.detail].doctor_id
          /\ table[id].start_time < table[id].end_time
          /\ table[id].end_time = table[resp.detail].start_time
          /\ table[resp.detail].start_time < table[resp.detail].end_time

\* C6: a status update of a stored appointment along anything but a legal transition
\* is not answered 200 and leaves the stored appointment as it was.
C6_OnlyLegalTransitions ==
    [][\A appointment_id \in ApptIds, new_status \in AppointmentStatus :
          (/\ BookingService_update_appointment_status(appointment_id, new_status)
           /\ IsAppointment(table[appointment_id])
           /\ ~LegalTransition(table[appointment_id].status, new_status))
          => /\ table'[appointment_id] = table[appointment_id]
             /\ resp'.code # 200]_vars

\* C7: cancel_appointment on an appointment that is already cancelled is not answered
\* 204 and leaves the stored appointment, its updated_at included, as it was.
C7_CancelCancelled ==
    [][\A appointment_id \in MemIds :
          (/\ cancel_appointment(appointment_id)
           /\ appointments_db[appointment_id].status = CANCELLED)
          => /\ appointments_db'[appointment_id] = appointments_db[appointment_id]
             /\ resp'.code # 204]_vars

\* C8: a status update to completed or no_show of a confirmed appointment whose
\* end_time is still in the future is not answered 200 and the status stays confirmed.
C8_TimeGated ==
    [][\A appointment_id \in ApptIds, new_status \in {COMPLETED, NO_SHOW} :
          (/\ BookingService_update_appointment_status(appointment_id, new_status)
           /\ IsAppointment(table[appointment_id])
           /\ table[appointment_id].status = CONFIRMED
           /\ now < table[appointment_id].end_time)
          => /\ table'[appointment_id].status = CONFIRMED
             /\ resp'.code # 200]_vars

\* C9: once the status of an appointment is cancelled, completed or no_show (or, in
\* the in-memory service, cancelled), no step changes it.
C9_TerminalAbsorbing ==
    [][/\ \A id \in ApptIds :
             (IsAppointment(table[id]) /\ table[id].status \in Terminal)
             => table'[id].status = table[id].status
       /\ \A id \in MemIds :
             appointments_db[id].status \in Terminal
             => appointments_db'[id].status = appointments_db[id].status]_vars

\* C10: right after a successful create, the appointment created has the initial
\* status (pending; scheduled in the in-memory service and in the SQL API).
C10_InitialPending ==
    /\ (resp.op = "create" /\ resp.code = 201 /\ resp.detail \in ApptIds)
       => table[resp.detail].status = PENDING
    /\ (resp.op = "create" /\ resp.code = 201 /\ resp.detail \in MemIds)
       => appointments_db[resp.detail].status = SCHEDULED
    /\ (resp.op = "create" /\ resp.code = 200)
       => sql_appointments[resp.detail].status = SCHEDULED

\* The stored appointments of a doctor at exactly the time.
AppointmentsAt(doctor_id, time) ==
    {id \in MemIds :
        /\ appointments_db[id] # NoAppointment
        /\ appointments_db[id].doctor_id = doctor_id
        /\ appointments_db[id].appointment_time = time}

\* C11: a create_appointment call for a doctor with availability and a time at which
\* the doctor's only stored appointment is cancelled is answered 201 and stores the
\* new appointment.
C11_CancelFreesSlot ==
    [][\A appointment_data \in MemAppointmentCreate :
          (/\ create_appointment(appointment_data)
           /\ doctor_availability_db[appointment_data.doctor_id] # NoAvailability
           /\ Cardinality(AppointmentsAt(appointment_data.doctor_id,
                                         appointment_data.appointment_time)) = 1
           /\ \A id \in AppointmentsAt(appointment_data.doctor_id,
                                       appointment_data.appointment_time) :
                 appointments_db[id].status = CANCELLED)
          => /\ resp'.code = 201
             /\ appointments_db' # appointments_db]_vars

\* C12: a status update (BookingService) or a cancel (in-memory service) for an
\* identifier under which nothing is stored is answered 404 and nothing is stored
\* under that identifier afterwards.
C12_UnknownIdNotFound ==
    [][/\ \A appointment_id \in ApptIds, new_status \in AppointmentStatus :
             (/\ BookingService_update_appointment_status(appointment_id, new_status)
              /\ table[appointment_id] = NoItem)
             => /\ resp'.code = 404
                /\ table'[appointment_id] = NoItem
       /\ \A appointment_id \in MemIds :
             (/\ cancel_appointment(appointment_id)
              /\ appointments_db[appointment_id] = NoAppointment)
             => /\ resp'.code = 404
                /\ appointments_db'[appointment_id] = NoAppointment]_vars

\* C13: a create_appointment call whose start_time is not before its end_time is not
\* answered 201 and stores nothing.
C13_InvalidIntervalRejected ==
    [][resp'.op = "create" =>
          \A appointment_data \in AppointmentCreate :
             (/\ appointment_data.start_time >= appointment_data.end_time
              /\ BookingService_create_appointment(appointment_data))
             => /\ resp'.code # 201
                /\ table' = table]_vars

\* The slots a doctor has published for a date.
SlotsOn(db, doctor_id, date) ==
    IF db[doctor_id].date = date THEN db[doctor_id].available_slots ELSE <<>>

\* C14: set_doctor_availability with a body for one date leaves the slots the doctor
\* has published for every other date as they were.
C14_OtherDatesKept ==
    [][\A doctor_id \in Doctors, availability \in AvailabilityBodies :
          set_doctor_availability(doctor_id, availability)
          => \A date \in Dates \ {availability.date} :
                SlotsOn(doctor_availability_db', doctor_id, date)
                    = SlotsOn(doctor_availability_db, doctor_id, date)]_vars

\* Two slots of the list overlap.
OverlappingSlots(available_slots) ==
    \E i, j \in DOMAIN available_slots :
        /\ i # j
        /\ Overlaps(available_slots[i].start_time, available_slots[i].end_time,
                    available_slots[j].start_time, available_slots[j].end_time)

\* C15: set_doctor_availability with a body in which two slots overlap is not
\* answered 201 and leaves the published availability as it was.
C15_OverlappingSlotsRejected ==
    [][\A doctor_id \in Doctors, availability \in AvailabilityBodies :
          (/\ set_doctor_availability(doctor_id, availability)
           /\ OverlappingSlots(availability.available_slots))
          => /\ resp'.code # 201
             /\ doctor_availability_db' = doctor_availability_db]_vars

\* C16: no step removes a stored appointment: an appointment stored under an
\* identifier before a step is stored under the same identifier after it, in the
\* in-memory service and in the BookingService table.
C16_NeverDeleted ==
    [][/\ \A id \in MemIds :
             appointments_db[id] # NoAppointment
             => /\ appointments_db'[id] # NoAppointment
                /\ appointments_db'[id].id = id
       /\ \A id \in ApptIds :
             IsAppointment(table[id])
             => /\ IsAppointment(table'[id])
                /\ table'[id].appointment_id = id]_vars

\* C16 witness: the last call cancelled an appointment, which is still stored under
\* its identifier, with status cancelled.
C16_Witness ==
    /\ resp.op = "cancel" /\ resp.code = 204
    /\ resp.detail \in MemIds
    /\ appointments_db[resp.detail].id = resp.detail
    /\ appointments_db[resp.detail].status = CANCELLED

\* C17: no two create_appointment calls for the same doctor are both between the end
\* of their conflict check and their put_item.
C17_PerDoctorExclusion ==
    \A c, d \in Calls :
        (/\ c # d
         /\ calls[c].pc = "save"
         /\ calls[d].pc = "save")
        => calls[c].appointment_data.doctor_id # calls[d].appointment_data.doctor_id

\* The table with the items of every other doctor removed.
OtherDoctorsErased(tbl, doctor_id) ==
    [id \in ApptIds |-> IF tbl[id].doctor_id = doctor_id THEN tbl[id] ELSE NoItem]

\* The in-memory appointments with those of every other doctor removed.
OtherDoctorsErasedMem(db, doctor_id) ==
    [id \in MemIds |-> IF db[id].doctor_id = doctor_id THEN db[id] ELSE NoAppointment]

Outcome(response) == <<response.code, response.detail>>

\* C19: the outcome of a rejected create_appointment call tells its cause.  On every
\* reachable table, for every identifier uuid4 may draw and every request, a rejection
\* by BookingService has the time-conflict outcome exactly when the request conflicts
\* with an appointment of the doctor, and the identifier-conflict outcome exactly when
\* it does not and the identifier drawn is in the table; neither is the
\* availability-not-found or the slot-taken outcome of the in-memory service.  A
\* rejection by the in-memory service has the availability-not-found outcome exactly
\* when the doctor has no availability, and the slot-taken outcome exactly when the
\* doctor has and the time is taken.
C19_ReasonTellsCause ==
    /\ [](\A appointment_id \in ApptIds, publish_ok \in BOOLEAN,
             appointment_data \in EnvAppointmentCreate :
             LET response == create_appointment_response(table, appointment_id,
                                                         publish_ok, appointment_data)
             IN response.code # 201
                => /\ Outcome(response) = <<409, TIME_CONFLICT_DETAIL>>
                      <=> TimeConflict(table, appointment_data)
                   /\ Outcome(response) = <<409, ID_CONFLICT_DETAIL>>
                      <=> /\ ~TimeConflict(table, appointment_data)
                          /\ ConditionalCheckFailed(table, appointment_id)
                   /\ Outcome(response) # <<409, SLOT_TAKEN_DETAIL>>
                   /\ \A d \in MemDoctors :
                         Outcome(response) # <<400, AVAILABILITY_NOT_FOUND_DETAIL(d)>>)
    /\ [][(resp'.op = "create" /\ resp'.code # 201) =>
             \A appointment_data \in MemAppointmentCreate :
                create_appointment(appointment_data)
                => LET doctor_id == appointment_data.doctor_id
                       missing == doctor_availability_db[doctor_id] = NoAvailability
                   IN /\ Outcome(resp') = <<400, AVAILABILITY_NOT_FOUND_DETAIL(doctor_id)>>
                         <=> missing
                      /\ Outcome(resp') = <<409, SLOT_TAKEN_DETAIL>>
                         <=> /\ ~missing
                             /\ SlotTaken(appointments_db, doctor_id,
                                          appointment_data.appointment_time)]_vars

\* C19 witness: the last call was rejected for an identifier conflict, and the table
\* holds an appointment.
C19_Witness ==
    /\ Outcome(resp) = <<409, ID_CONFLICT_DETAIL>>
    /\ resp.op = "create"
    /\ \E id \in ApptIds : IsAppointment(table[id])

\* C20: a create_appointment or update_appointment_status call during which publish
\* raises answers what the same call answers when publish succeeds, and leaves the
\* table as that call leaves it: the new appointment stored, or the status and
\* updated_at written.
C20_PublishFailureHarmless ==
    [][(sns' = NoMessage /\ resp'.code # 409) =>
          /\ \A appointment_id \in ApptIds, appointment_data \in EnvAppointmentCreate :
                BookingService_create_appointment_env(appointment_id, FALSE,
                                                      appointment_data)
                => /\ resp' = create_appointment_response(table, appointment_id, TRUE,
                                                          appointment_data)
                   /\ resp'.code = 201
                   /\ table' = [table EXCEPT ![appointment_id] =
                                    NewItem(appointment_id, appointment_data, now)]
          /\ \A appointment_id \in ApptIds, new_status \in AppointmentStatus :
                BookingService_update_appointment_status_env(appointment_id, new_status,
                                                             FALSE)
                => LET updated_item == update_item(table, appointment_id, new_status, now)
                   IN /\ resp' = update_appointment_status_response(
                                     updated_item, appointment_id, TRUE)
                      /\ table' = [table EXCEPT ![appointment_id] = updated_item]]_vars

\* C20 witness: the last call updated the status of an appointment and answered 200,
\* and no message reached the topic: publish raised.
C20_Witness ==
    /\ resp.op = "update" /\ resp.code = 200
    /\ sns = NoMessage
    /\ IsAppointment(table[resp.detail])
    /\ table[resp.detail].status = CONFIRMED

(***************************************************************************)
(* BookingService: what the table holds on the wire, and reading it back.  *)
(***************************************************************************)
\* The datetime a time of the model stands for: quarter hours counted from midnight
\* of day 0.
datetime(t) ==
    [day |-> t \div Day, hour |-> (t % Day) \div 4, minute |-> 15 * (t % 4)]

\* datetime.isoformat(), as the sequence of its digits: day, hour (two digits),
\* minute (two digits).
isoformat(dt) ==
    <<dt.day, dt.hour \div 10, dt.hour % 10, dt.minute \div 10, dt.minute % 10>>

\* A parser that reads the day and the hour of the string and drops the minutes.
fromisoformat_hour(date_string) ==
    [day |-> date_string[1],
     hour |-> 10 * date_string[2] + date_string[3],
     minute |-> 0]

\* datetime.fromisoformat()
fromisoformat(date_string) ==
    [day |-> date_string[1],
     hour |-> 10 * date_string[2] + date_string[3],
     minute |-> 10 * date_string[4] + date_string[5]]

\* The attributes of a stored item as put_item wrote them: the times as
\* isoformat() strings, the status as the value of its enum member.
dynamodb_item(item) ==
    [appointment_id |-> item.appointment_id,
     patient_id |-> item.patient_id,
     doctor_id |-> item.doctor_id,
     start_time |-> isoformat(datetime(item.start_time)),
     end_time |-> isoformat(datetime(item.end_time)),
     status |-> item.status]

\* _dynamodb_item_to_appointment_response, for the attributes above.
dynamodb_item_to_appointment_response(item) ==
    [appointment_id |-> item.appointment_id,
     patient_id |-> item.patient_id,
     doctor_id |-> item.doctor_id,
     start_time |-> fromisoformat(item.start_time),
     end_time |-> fromisoformat(item.end_time),
     status |-> CHOOSE member \in AppointmentStatus : member = item.status]

\* get_appointment: None when there is no item, a 500 when the item lacks an
\* attribute the conversion reads, the appointment otherwise.
get_appointment(tbl, appointment_id) ==
    IF tbl[appointment_id] = NoItem
    THEN [found |-> FALSE, code |-> 404]
    ELSE IF ~IsAppointment(tbl[appointment_id])
    THEN [found |-> FALSE, code |-> 500]
    ELSE [found |-> TRUE, code |-> 200,
          appointment |->
              dynamodb_item_to_appointment_response(dynamodb_item(tbl[appointment_id]))]

\* C21: right after create_appointment has admitted a request, get_appointment with
\* the identifier returned finds the appointment, with that identifier, the patient,
\* doctor, start_time and end_time of the request, and status pending.
C21_RoundTrip ==
    [][(resp'.op = "create" /\ resp'.code = 201) =>
          \A appointment_data \in AppointmentCreate :
             BookingService_create_appointment(appointment_data)
             => LET loaded == get_appointment(table', resp'.detail)
                IN /\ loaded.found
                   /\ loaded.appointment.appointment_id = resp'.detail
                   /\ loaded.appointment.patient_id = appointment_data.patient_id
                   /\ loaded.appointment.doctor_id = appointment_data.doctor_id
                   /\ loaded.appointment.start_time
                         = datetime(appointment_data.start_time)
                   /\ loaded.appointment.end_time = datetime(appointment_data.end_time)
                   /\ loaded.appointment.status = PENDING]_vars

\* C21 witness: the last call admitted an appointment that starts at a quarter past
\* the hour, and get_appointment returns it.
C21_Witness ==
    /\ resp.op = "create" /\ resp.code = 201
    /\ resp.detail \in ApptIds
    /\ table[resp.detail].start_time = 1
    /\ get_appointment(table, resp.detail).found
    /\ get_appointment(table, resp.detail).appointment.start_time.minute = 15

\* An active appointment of the request's doctor overlaps the request.
ActiveOverlap(tbl, appointment_data) ==
    \E id \in ApptIds :
        /\ IsAppointment(tbl[id])
        /\ tbl[id].doctor_id = appointment_data.doctor_id
        /\ tbl[id].status \in Active
        /\ Overlaps(appointment_data.start_time, appointment_data.end_time,
                    tbl[id].start_time, tbl[id].end_time)

ChangedIds == {id \in ApptIds : table'[id] # table[id]}

\* The identifiers whose in-memory appointment a step changes.
ChangedMemIds == {id \in MemIds : appointments_db'[id] # appointments_db[id]}

\* C23: a create_appointment call (a step that answers a create and is no tick of
\* the clock) that is not answered 201 leaves every stored
\* appointment as it was; a call that is answered 201 has stored one appointment
\* under an identifier that held nothing, the one it returns, and changed no other.
C23_AtomicOutcome ==
    [][(resp'.op = "create" /\ now' = now) =>
          IF resp'.code # 201
          THEN ChangedIds = {} /\ ChangedMemIds = {}
          ELSE IF resp'.detail \in ApptIds
          THEN /\ ChangedIds = {resp'.detail}
               /\ table[resp'.detail] = NoItem
               /\ IsAppointment(table'[resp'.detail])
               /\ ChangedMemIds = {}
          ELSE /\ ChangedMemIds = {resp'.detail}
               /\ appointments_db[resp'.detail] = NoAppointment
               /\ appointments_db'[resp'.detail] # NoAppointment
               /\ ChangedIds = {}]_vars

\* C23 witness: the last call was rejected for a time conflict while the table holds
\* an appointment and an identifier is still free.
C23_Witness ==
    /\ resp.op = "create"
    /\ Outcome(resp) = <<409, TIME_CONFLICT_DETAIL>>
    /\ \E id \in ApptIds : IsAppointment(table[id])
    /\ \E id \in ApptIds : table[id] = NoItem

\* C24: a message on the topic is about a write that has been made: the call that
\* published it was answered 201 or 200 for the appointment the message names, and
\* the table holds that appointment with the status the message carries.  A call that
\* was rejected has published nothing.
C24_NotifyAfterWrite ==
    sns # NoMessage
    => /\ resp.code \in {200, 201}
       /\ resp.detail = sns.appointment_id
       /\ IsAppointment(table[sns.appointment_id])
       /\ table[sns.appointment_id].status = sns.status

\* C24 witness: the last call set an appointment to confirmed and its message is on
\* the topic.
C24_Witness ==
    /\ sns # NoMessage
    /\ sns.status = CONFIRMED
    /\ resp.op = "update" /\ resp.code = 200

\* C25: update_appointment on a stored appointment with a body that sets status is
\* answered 200, stores that status on the appointment and sets its updated_at to
\* the time of the call.
C25_UpdateStoresStatus ==
    [][resp'.op = "update" =>
          \A appointment_id \in MemIds, appointment_update \in AppointmentUpdate :
             (/\ appointments_db[appointment_id] # NoAppointment
              /\ appointment_update.status # Absent
              /\ update_appointment(appointment_id, appointment_update))
             => /\ resp'.code = 200
                /\ appointments_db'[appointment_id].status = appointment_update.status
                /\ appointments_db'[appointment_id].updated_at = now]_vars

\* C26: no step changes the identifier, patient, doctor, start_time, end_time or
\* created_at of a stored appointment (BookingService), nor the id, patient, doctor,
\* appointment_time or created_at of one of the in-memory service.
C26_IdentityFieldsKept ==
    [][/\ \A id \in ApptIds :
             IsAppointment(table[id])
             => /\ table'[id].appointment_id = table[id].appointment_id
                /\ table'[id].patient_id = table[id].patient_id
                /\ table'[id].doctor_id = table[id].doctor_id
                /\ table'[id].start_time = table[id].start_time
                /\ table'[id].end_time = table[id].end_time
                /\ table'[id].created_at = table[id].created_at
       /\ \A id \in MemIds :
             appointments_db[id] # NoAppointment
             => /\ appointments_db'[id].id = appointments_db[id].id
                /\ appointments_db'[id].patient_id = appointments_db[id].patient_id
                /\ appointments_db'[id].doctor_id = appointments_db[id].doctor_id
                /\ appointments_db'[id].appointment_time
                      = appointments_db[id].appointment_time
                /\ appointments_db'[id].created_at = appointments_db[id].created_at]_vars

\* C26 witness: the last call updated the status of an appointment at a later time
\* than it was created: its updated_at is after its created_at.
C26_Witness ==
    /\ resp.op = "update" /\ resp.code = 200
    /\ IsAppointment(table[resp.detail])
    /\ table[resp.detail].status # PENDING
    /\ table[resp.detail].created_at < table[resp.detail].updated_at

\* C27: no two entries of appointments_db have the same doctor_id and the same
\* appointment_time.
C27_DistinctDoctorTime ==
    \A a, b \in MemIds :
        (/\ a # b
         /\ appointments_db[a] # NoAppointment
         /\ appointments_db[b] # NoAppointment)
        => <<appointments_db[a].doctor_id, appointments_db[a].appointment_time>>
              # <<appointments_db[b].doctor_id, appointments_db[b].appointment_time>>

\* C27 witness: a request for a doctor and a time that an entry already holds was
\* answered 409 while an identifier was free, and the entry it met is cancelled.
C27_Witness ==
    /\ resp.op = "create"
    /\ Outcome(resp) = <<409, SLOT_TAKEN_DETAIL>>
    /\ \E id \in MemIds : appointments_db[id].status = CANCELLED
    /\ \E id \in MemIds : appointments_db[id] = NoAppointment

\* C28: every entry of doctor_availability_db is the availability of the doctor it
\* is stored under.
C28_StoredUnderOwnDoctor ==
    \A d \in MemDoctors :
        doctor_availability_db[d] # NoAvailability
        => doctor_availability_db[d].doctor_id = d

\* C29: create_appointment never writes over an item: a call leaves every item of
\* the table as it was, and a call whose identifier is in use and whose request has
\* no time conflict is answered with the identifier conflict.  Every stored
\* appointment carries the identifier it is stored under.
C29_NeverOverwrites ==
    /\ [](/\ \A id \in ApptIds :
                IsAppointment(table[id]) => table[id].appointment_id = id
          /\ \A appointment_id \in ApptIds, publish_ok \in BOOLEAN,
                appointment_data \in EnvAppointmentCreate :
                (/\ table[appointment_id] # NoItem
                 /\ ~TimeConflict(table, appointment_data))
                => Outcome(create_appointment_response(table, appointment_id,
                                                       publish_ok, appointment_data))
                      = <<409, ID_CONFLICT_DETAIL>>)
    /\ [][(resp'.op = "create" /\ now' = now) =>
             \A id \in ApptIds : table[id] # NoItem => table'[id] = table[id]]_vars

\* C29 witness: the last call was answered with the identifier conflict, and every
\* identifier holds an appointment created earlier, all of them still pending.
C29_Witness ==
    /\ resp.op = "create"
    /\ Outcome(resp) = <<409, ID_CONFLICT_DETAIL>>
    /\ sns = NoMessage
    /\ \A id \in ApptIds : IsAppointment(table[id]) /\ table[id].status = PENDING

(***************************************************************************)
(* TelemedicineService.                                                    *)
(***************************************************************************)

\* create_session: a new item with status scheduled and no Chime meeting.
TelemedicineService_create_session(session_id, session_data) ==
    /\ sessions[session_id] = NoSession
    /\ sessions' = [sessions EXCEPT ![session_id] =
                       [status |-> SESSION_SCHEDULED,
                        meeting_id |-> NoMeeting,
                        is_recording_active |-> FALSE,
                        patient_id |-> session_data.patient_id,
                        doctor_id |-> session_data.doctor_id]]
    /\ resp' = Response("create_session", 201, session_id)
    /\ UNCHANGED <<chime_meetings, meetings_created, now, BookingState,
                   appointments_db, doctor_availability_db, sql_appointments>>

\* The end of join_session: create_attendee and the answer.
create_attendee_response(session_id, attendee_ok) ==
    IF attendee_ok
    THEN Response("join", 200, session_id)
    ELSE Response("join", 500, CREATE_ATTENDEE_FAILED_DETAIL)

\* join_session: creates the Chime meeting when the item has no meeting_id,
\* fetches it otherwise, then creates the attendee.  chime_ok says whether
\* create_meeting / get_meeting answer; attendee_ok whether create_attendee does.
TelemedicineService_join_session(session_id, join_request, chime_ok, attendee_ok) ==
    LET session == sessions[session_id]
        meeting_id == meetings_created + 1
    IN
    /\ chime_ok => meetings_created < MaxMeetings
    /\ IF session = NoSession
       THEN /\ resp' = Response("join", 404, SESSION_NOT_FOUND_DETAIL)
            /\ UNCHANGED <<sessions, chime_meetings, meetings_created>>
       ELSE IF join_request.user_type = PATIENT /\ join_request.user_id # session.patient_id
       THEN /\ resp' = Response("join", 403, UNAUTHORIZED_PATIENT_DETAIL)
            /\ UNCHANGED <<sessions, chime_meetings, meetings_created>>
       ELSE IF join_request.user_type = DOCTOR /\ join_request.user_id # session.doctor_id
       THEN /\ resp' = Response("join", 403, UNAUTHORIZED_DOCTOR_DETAIL)
            /\ UNCHANGED <<sessions, chime_meetings, meetings_created>>
       ELSE IF session.meeting_id = NoMeeting
       THEN IF chime_ok
            THEN /\ chime_meetings' = chime_meetings \cup {meeting_id}
                 /\ meetings_created' = meetings_created + 1
                 /\ sessions' = [sessions EXCEPT ![session_id].meeting_id = meeting_id,
                                                 ![session_id].status = IN_PROGRESS]
                 /\ resp' = create_attendee_response(session_id, attendee_ok)
            ELSE /\ resp' = Response("join", 500, CREATE_MEETING_FAILED_DETAIL)
                 /\ UNCHANGED <<sessions, chime_meetings, meetings_created>>
       ELSE IF session.meeting_id \notin chime_meetings
       THEN /\ sessions' = [sessions EXCEPT ![session_id].meeting_id = NoMeeting,
                                            ![session_id].status = ENDED]
            /\ resp' = Response("join", 404, MEETING_NOT_FOUND_DETAIL)
            /\ UNCHANGED <<chime_meetings, meetings_created>>
       ELSE IF ~chime_ok
       THEN /\ resp' = Response("join", 500, GET_MEETING_FAILED_DETAIL)
            /\ UNCHANGED <<sessions, chime_meetings, meetings_created>>
       ELSE /\ sessions' = IF session.status = SESSION_SCHEDULED
                           THEN [sessions EXCEPT ![session_id].status = IN_PROGRESS]
                           ELSE sessions
            /\ resp' = create_attendee_response(session_id, attendee_ok)
            /\ UNCHANGED <<chime_meetings, meetings_created>>
    /\ UNCHANGED <<now, BookingState, appointments_db, doctor_availability_db,
                   sql_appointments>>

\* end_session: deletes the Chime meeting (errors are logged and swallowed),
\* then marks the item ended and removes its meeting_id.
TelemedicineService_end_session(session_id, delete_ok) ==
    LET session == sessions[session_id]
    IN
    /\ IF session = NoSession
       THEN /\ resp' = Response("end", 404, SESSION_NOT_FOUND_DETAIL)
            /\ UNCHANGED <<sessions, chime_meetings>>
       ELSE IF session.status = ENDED
       THEN /\ resp' = Response("end", 200, session_id)
            /\ UNCHANGED <<sessions, chime_meetings>>
       ELSE /\ chime_meetings' = IF session.meeting_id # NoMeeting /\ delete_ok
                                 THEN chime_meetings \ {session.meeting_id}
                                 ELSE chime_meetings
            /\ sessions' = [sessions EXCEPT ![session_id].status = ENDED,
                                            ![session_id].is_recording_active = FALSE,
                                            ![session_id].meeting_id = NoMeeting]
            /\ resp' = Response("end", 200, session_id)
    /\ UNCHANGED <<meetings_created, now, BookingState, appointments_db,
                   doctor_availability_db, sql_appointments>>

\* start_recording: only for a session in progress with a meeting.
TelemedicineService_start_recording(session_id, chime_ok) ==
    LET session == sessions[session_id]
    IN
    /\ IF session = NoSession
       THEN /\ resp' = Response("start_recording", 404, SESSION_NOT_FOUND_DETAIL)
            /\ UNCHANGED sessions
       ELSE IF session.status # IN_PROGRESS \/ session.meeting_id = NoMeeting
       THEN /\ resp' = Response("start_recording", 400, NOT_IN_PROGRESS_DETAIL)
            /\ UNCHANGED sessions
       ELSE IF session.is_recording_active
       THEN /\ resp' = Response("start_recording", 200, session_id)
            /\ UNCHANGED sessions
       ELSE IF chime_ok /\ session.meeting_id \in chime_meetings
       THEN /\ sessions' = [sessions EXCEPT ![session_id].is_recording_active = TRUE]
            /\ resp' = Response("start_recording", 200, session_id)
       ELSE /\ resp' = Response("start_recording", 500, START_RECORDING_FAILED_DETAIL)
            /\ UNCHANGED sessions
    /\ UNCHANGED <<chime_meetings, meetings_created, now, BookingState, appointments_db,
                   doctor_availability_db, sql_appointments>>

\* stop_recording: only for a session that is recording in a meeting.
TelemedicineService_stop_recording(session_id, chime_ok) ==
    LET session == sessions[session_id]
    IN
    /\ IF session = NoSession
       THEN /\ resp' = Response("stop_recording", 404, SESSION_NOT_FOUND_DETAIL)
            /\ UNCHANGED sessions
       ELSE IF ~session.is_recording_active \/ session.meeting_id = NoMeeting
       THEN /\ resp' = Response("stop_recording", 200, session_id)
            /\ UNCHANGED sessions
       ELSE IF chime_ok /\ session.meeting_id \in chime_meetings
       THEN /\ sessions' = [sessions EXCEPT ![session_id].is_recording_active = FALSE]
            /\ resp' = Response("stop_recording", 200, session_id)
       ELSE /\ resp' = Response("stop_recording", 500, STOP_RECORDING_FAILED_DETAIL)
            /\ UNCHANGED sessions
    /\ UNCHANGED <<chime_meetings, meetings_created, now, BookingState, appointments_db,
                   doctor_availability_db, sql_appointments>>

\* Amazon Chime ends a meeting on its own; get_meeting then raises
\* NotFoundException in join_session.
chime_meeting_ends(meeting_id) ==
    /\ meeting_id \in chime_meetings
    /\ chime_meetings' = chime_meetings \ {meeting_id}
    /\ UNCHANGED <<sessions, meetings_created, now, resp, BookingState, appointments_db,
                   doctor_availability_db, sql_appointments>>

NextTelemedicine ==
    \/ \E session_id \in SessionIds, session_data \in TelemedicineSessionCreate :
          TelemedicineService_create_session(session_id, session_data)
    \/ \E session_id \in SessionIds, join_request \in JoinSessionRequest,
          chime_ok \in BOOLEAN, attendee_ok \in BOOLEAN :
          TelemedicineService_join_session(session_id, join_request, chime_ok, attendee_ok)
    \/ \E session_id \in SessionIds, delete_ok \in BOOLEAN :
          TelemedicineService_end_session(session_id, delete_ok)
    \/ \E session_id \in SessionIds, chime_ok \in BOOLEAN :
          TelemedicineService_start_recording(session_id, chime_ok)
    \/ \E session_id \in SessionIds, chime_ok \in BOOLEAN :
          TelemedicineService_stop_recording(session_id, chime_ok)
    \/ \E meeting_id \in MeetingIds : chime_meeting_ends(meeting_id)

SpecTelemedicine == Init /\ [][NextTelemedicine]_vars

\* C30: in the telemedicine service ENDED is absorbing: a session whose status
\* is ended keeps that status, and gets no new Chime meeting, whatever
\* join_session, end_session, start_recording or stop_recording call follows.
C30_EndedAbsorbing ==
    [][\A session_id \in SessionIds :
          sessions[session_id].status = ENDED
             => /\ sessions'[session_id].status = ENDED
                /\ sessions'[session_id].meeting_id = NoMeeting]_vars

====
